---- MODULE Spec2Model ----
(***************************************************************************)
(* OSPF neighbour discovery of ns-3 OspfL4Protocol (ospf-l4-protocol.cc):  *)
(* the Down / Init / Two-Way handlers, the three senders, the bootstrap    *)
(* self-announcement startDownState and the neighbour table they use.      *)
(***************************************************************************)
EXTENDS Integers, Sequences, FiniteSets, Bags, TLC

(* ---------------- enum States, enum PacketType, protocol number -------- *)
DOWN == 0
ATTEMPT == 1
INIT == 2
TWO_WAY == 3
EXSTART == 4
EXCHANGE == 5
LOADING == 6
FULL == 7
HELLO == 0
PROTOCOL_NUMBER == 89
OSPF_ALL_NODE == "224.0.0.5"

(* Ipv4InterfaceAddress scopes; HOST is the one the senders test for. *)
HOST == "HOST"
GLOBAL == "GLOBAL"

(* ---------------- bounds of the model ---------------------------------- *)
(* longest neighbour snapshot carried by a packet the environment forges *)
MaxSnap == 1

(* ---------------- topology and configuration --------------------------- *)
(* A and B are two plain routers on one link; C is a router with several   *)
(* interfaces and addresses that is fed arbitrary packets.                 *)
Routers == {"A", "B", "C"}

(* SetNode: m_routerId = node->GetId() *)
m_routerId(r) == CASE r = "A" -> 1 [] r = "B" -> 2 [] OTHER -> 3

(* SetOspfAreaType: every router is put in area 0 (AssignAreaNumber(r, 0)) *)
m_areaId(r) == 0

Addr(l, m, s) == [local |-> l, mask |-> m, scope |-> s]
Iface(lb, as) == [loopback |-> lb, addrs |-> as]
Loopback == Iface(TRUE, <<Addr("127.0.0.1", 8, HOST)>>)

(* SetIpv4: the interfaces of the node, interface 0 first. Interface 0 is  *)
(* the loopback device with the host-scoped 127.0.0.1/8.                   *)
m_ipv4(r) ==
    CASE r = "A" -> <<Loopback, Iface(FALSE, <<Addr("10.0.1.1", 24, GLOBAL)>>)>>
      [] r = "B" -> <<Loopback, Iface(FALSE, <<Addr("10.0.1.2", 24, GLOBAL)>>)>>
      [] OTHER   -> <<Loopback,
                      Iface(FALSE, <<Addr("10.0.2.1", 24, GLOBAL),
                                     Addr("10.0.2.2", 24, GLOBAL),
                                     Addr("10.0.2.3", 24, HOST)>>),
                      Iface(FALSE, <<Addr("10.0.3.1", 24, GLOBAL)>>)>>

(* SetExclusions *)
m_interfaceExclusions(r) == IF r = "C" THEN {2} ELSE {}

(* m_ipv4->GetNInterfaces(), GetNAddresses(i), GetAddress(i, j): indices   *)
(* count from 0 as in the code.                                            *)
GetNInterfaces(r) == Len(m_ipv4(r))
GetNAddresses(r, i) == Len(m_ipv4(r)[i + 1].addrs)
GetAddress(r, i, j) == m_ipv4(r)[i + 1].addrs[j + 1]

(* Ipv4Interface::GetAddress(index) on a stored interface pointer: the     *)
(* index-th address of that interface; any other index is a fatal error.   *)
InterfaceHasAddress(r, ipInterface, index) ==
    index < GetNAddresses(r, ipInterface)

(* ---------------- OspfNeighborTable ------------------------------------ *)
(* The table keeps the neighbour records (rows) and, apart from them, the  *)
(* states recorded under a router id that has no neighbour record: the     *)
(* state accessors never change which neighbours the table holds.          *)
NOT_FOUND == -1
EmptyTable == [rows |-> <<>>, states |-> {}]

NeighborItem(ipAddress, ipMask, ipInterface, state, router_id) ==
    [ipInterface |-> ipInterface, ipAddress |-> ipAddress, ipMask |-> ipMask,
     state |-> state, router_id |-> router_id]

HasNeighbor(tbl, router_id) ==
    \E n \in 1..Len(tbl.rows) : tbl.rows[n].router_id = router_id

(* variant of add_neighbor that appends without looking for the router id *)
addNeighbors_Append(tbl, ipAddress, ipMask, ipInterface, state, router_id) ==
    [tbl EXCEPT !.rows =
        Append(@, NeighborItem(ipAddress, ipMask, ipInterface, state, router_id))]

(* add_neighbor: inserts a record unless one with this router_id exists *)
addNeighbors(tbl, ipAddress, ipMask, ipInterface, state, router_id) ==
    IF HasNeighbor(tbl, router_id)
    THEN tbl
    ELSE [tbl EXCEPT !.rows =
            Append(@, NeighborItem(ipAddress, ipMask, ipInterface, state, router_id))]

(* get_current_neighbors: a copy of the rows *)
getCurrentNeighbors(tbl) == tbl.rows

(* get_state by router_id; an unknown id gives the not-found value *)
get_State(tbl, router_id) ==
    IF HasNeighbor(tbl, router_id)
    THEN tbl.rows[CHOOSE n \in 1..Len(tbl.rows) :
                     tbl.rows[n].router_id = router_id].state
    ELSE IF \E p \in tbl.states : p[1] = router_id
    THEN (CHOOSE p \in tbl.states : p[1] = router_id)[2]
    ELSE NOT_FOUND

(* set_state by router_id: the state recorded under router_id becomes      *)
(* state; the neighbour records other than that of router_id are untouched *)
(* and no neighbour record is added.                                       *)
set_State(tbl, state, router_id) ==
    IF HasNeighbor(tbl, router_id)
    THEN [tbl EXCEPT !.rows =
            [n \in 1..Len(@) |->
                IF @[n].router_id = router_id
                THEN [@[n] EXCEPT !.state = state] ELSE @[n]]]
    ELSE [tbl EXCEPT !.states =
            {p \in @ : p[1] # router_id} \cup {<<router_id, state>>}]

(* ---------------- packets ---------------------------------------------- *)
NoRoute == "nullptr"

(* OspfHello filled in by the three senders *)
(* variant: the body is composed without the call of setNeighbors *)
Hello_NoNeighbors(r, tbl) ==
    [router_id |-> m_routerId(r),
     neighbors |-> <<>>,
     area_id   |-> m_areaId(r)]

Hello(r, tbl) ==
    [router_id |-> m_routerId(r),
     neighbors |-> getCurrentNeighbors(tbl),
     area_id   |-> m_areaId(r)]

(* what m_downTarget receives: the packet with its OSPF header and body,   *)
(* the addresses, the protocol number and the route                        *)
Transport(saddr, daddr, ipv4Mask, helloHeader, packetType, currentState, route) ==
    [mask       |-> ipv4Mask,
     state      |-> currentState,
     router_id  |-> helloHeader.router_id,
     neighbors  |-> helloHeader.neighbors,
     area_id    |-> helloHeader.area_id,
     saddr      |-> saddr,
     daddr      |-> daddr,
     packetType |-> packetType,
     route      |-> route,
     protocol   |-> PROTOCOL_NUMBER,
     checksum   |-> <<saddr, daddr, PROTOCOL_NUMBER>>]

(* Send without a route *)
Send(saddr, daddr, ipv4Mask, helloHeader, packetType, currentState) ==
    Transport(saddr, daddr, ipv4Mask, helloHeader, packetType, currentState, NoRoute)

(* variant: the routed Send leaves the mask of the header unset *)
SendRoute_NoSetMask(saddr, daddr, ipv4Mask, helloHeader, packetType, currentState, route) ==
    Transport(saddr, daddr, 0, helloHeader, packetType, currentState, route)

(* Send with an explicit route *)
SendRoute(saddr, daddr, ipv4Mask, helloHeader, packetType, currentState, route) ==
    Transport(saddr, daddr, ipv4Mask, helloHeader, packetType, currentState, route)

(* ---------------- senders ---------------------------------------------- *)
(* A handler works on st = [tbl, out, abort, fwd]: the neighbour table, the *)
(* packets handed to the transport so far, whether the process has         *)
(* aborted, and the interfaces with forwarding switched on.                *)
SendDownPacket(r, st, address) ==
    IF address.scope # HOST
    THEN [st EXCEPT !.out = Append(@,
            Send(address.local, OSPF_ALL_NODE, address.mask, Hello(r, st.tbl), HELLO, DOWN))]
    ELSE st

(* variant: the Init packet is sent whatever the scope of the address *)
SendInitPacket_NoScopeCheck(r, st, address, daddr) ==
    [st EXCEPT !.out = Append(@,
        Send(address.local, daddr, address.mask, Hello(r, st.tbl), HELLO, INIT))]

SendInitPacket(r, st, address, daddr) ==
    IF address.scope # HOST
    THEN [st EXCEPT !.out = Append(@,
            Send(address.local, daddr, address.mask, Hello(r, st.tbl), HELLO, INIT))]
    ELSE st

SendTwoWayPacket(r, st, address, daddr) ==
    IF address.scope # HOST
    THEN [st EXCEPT !.out = Append(@,
            Send(address.local, daddr, address.mask, Hello(r, st.tbl), HELLO, TWO_WAY))]
    ELSE st

(* ---------------- handlers --------------------------------------------- *)
(* the loop over the rows of a neighbour list looking for a router id *)
ListsRouter(neighbors, router_id) ==
    \E n \in 1..Len(neighbors) : neighbors[n].router_id = router_id

(* variant: the neighbour is recorded in the state of the reply, Init *)
HandleDownResponse_InitState(r, st, pkt, interface, incomingIf) ==
    IF /\ pkt.area_id = m_areaId(r)
       /\ pkt.mask = GetAddress(r, interface, incomingIf).mask
    THEN SendInitPacket(r,
            [st EXCEPT !.tbl = addNeighbors(@, pkt.saddr, pkt.mask, interface,
                                            INIT, pkt.router_id)],
            GetAddress(r, interface, incomingIf), pkt.saddr)
    ELSE st

(* variant: the mask of the packet is not compared *)
HandleDownResponse_NoMaskCheck(r, st, pkt, interface, incomingIf) ==
    IF pkt.area_id = m_areaId(r)
    THEN SendInitPacket(r,
            [st EXCEPT !.tbl = addNeighbors(@, pkt.saddr, pkt.mask, interface,
                                            pkt.state, pkt.router_id)],
            GetAddress(r, interface, incomingIf), pkt.saddr)
    ELSE st

(* variant: a repeated Down sets the recorded state of the sender again *)
HandleDownResponse_Refresh(r, st, pkt, interface, incomingIf) ==
    IF /\ pkt.area_id = m_areaId(r)
       /\ pkt.mask = GetAddress(r, interface, incomingIf).mask
    THEN SendInitPacket(r,
            [st EXCEPT !.tbl = set_State(
                                 addNeighbors(@, pkt.saddr, pkt.mask, interface,
                                              pkt.state, pkt.router_id),
                                 pkt.state, pkt.router_id)],
            GetAddress(r, interface, incomingIf), pkt.saddr)
    ELSE st

(* variant: the Init reply is composed before the sender is recorded *)
HandleDownResponse_RepliesFirst(r, st, pkt, interface, incomingIf) ==
    IF /\ pkt.area_id = m_areaId(r)
       /\ pkt.mask = GetAddress(r, interface, incomingIf).mask
    THEN [SendInitPacket(r, st, GetAddress(r, interface, incomingIf), pkt.saddr)
            EXCEPT !.tbl = addNeighbors(@, pkt.saddr, pkt.mask, interface,
                                        pkt.state, pkt.router_id)]
    ELSE st

HandleDownResponse(r, st, pkt, interface, incomingIf) ==
    IF /\ pkt.area_id = m_areaId(r)
       /\ pkt.mask = GetAddress(r, interface, incomingIf).mask
    THEN SendInitPacket(r,
            [st EXCEPT !.tbl = addNeighbors(@, pkt.saddr, pkt.mask, interface,
                                            pkt.state, pkt.router_id)],
            GetAddress(r, interface, incomingIf), pkt.saddr)
    ELSE st

(* variant: an Init packet with an empty snapshot is dropped *)
HandleInitResponse_DropEmpty(r, st, pkt, interface, incomingIf) ==
    LET neighbors == pkt.neighbors
        address == GetAddress(r, interface, incomingIf)
        check == ListsRouter(neighbors, m_routerId(r)) /\ pkt.area_id = m_areaId(r)
        m_current_neighbors == getCurrentNeighbors(st.tbl)
        add_neighbor == \/ m_current_neighbors = <<>>
                        \/ ~ListsRouter(m_current_neighbors, pkt.router_id)
    IN  IF neighbors = <<>>
        THEN st
        ELSE IF check
        THEN IF add_neighbor
             THEN SendTwoWayPacket(r,
                    [st EXCEPT !.tbl = addNeighbors(@, pkt.saddr, pkt.mask, interface,
                                                    pkt.state, pkt.router_id)],
                    address, pkt.saddr)
             ELSE SendTwoWayPacket(r,
                    [st EXCEPT !.tbl = set_State(@, INIT, m_routerId(r))],
                    address, pkt.saddr)
        ELSE SendDownPacket(r, st, address)

(* variant: a new neighbour is recorded in the state of the reply, Two-Way *)
HandleInitResponse_AddsTwoWay(r, st, pkt, interface, incomingIf) ==
    LET neighbors == pkt.neighbors
        address == GetAddress(r, interface, incomingIf)
        check == ListsRouter(neighbors, m_routerId(r)) /\ pkt.area_id = m_areaId(r)
        m_current_neighbors == getCurrentNeighbors(st.tbl)
        add_neighbor == \/ m_current_neighbors = <<>>
                        \/ ~ListsRouter(m_current_neighbors, pkt.router_id)
    IN  IF neighbors = <<>>
        THEN SendDownPacket(r, st, address)
        ELSE IF check
        THEN IF add_neighbor
             THEN SendTwoWayPacket(r,
                    [st EXCEPT !.tbl = addNeighbors(@, pkt.saddr, pkt.mask, interface,
                                                    TWO_WAY, pkt.router_id)],
                    address, pkt.saddr)
             ELSE SendTwoWayPacket(r,
                    [st EXCEPT !.tbl = set_State(@, INIT, m_routerId(r))],
                    address, pkt.saddr)
        ELSE SendDownPacket(r, st, address)

(* variant: the Init state is recorded under the sender's router id *)
HandleInitResponse_PeerKey(r, st, pkt, interface, incomingIf) ==
    LET neighbors == pkt.neighbors
        address == GetAddress(r, interface, incomingIf)
        check == ListsRouter(neighbors, m_routerId(r)) /\ pkt.area_id = m_areaId(r)
        m_current_neighbors == getCurrentNeighbors(st.tbl)
        add_neighbor == \/ m_current_neighbors = <<>>
                        \/ ~ListsRouter(m_current_neighbors, pkt.router_id)
    IN  IF neighbors = <<>>
        THEN SendDownPacket(r, st, address)
        ELSE IF check
        THEN IF add_neighbor
             THEN SendTwoWayPacket(r,
                    [st EXCEPT !.tbl = addNeighbors(@, pkt.saddr, pkt.mask, interface,
                                                    pkt.state, pkt.router_id)],
                    address, pkt.saddr)
             ELSE SendTwoWayPacket(r,
                    [st EXCEPT !.tbl = set_State(@, INIT, pkt.router_id)],
                    address, pkt.saddr)
        ELSE SendDownPacket(r, st, address)

(* variant: the test of the empty snapshot has no else, the handler goes   *)
(* on to the proof after the Down packet                                   *)
HandleInitResponse_NoElse(r, st, pkt, interface, incomingIf) ==
    LET neighbors == pkt.neighbors
        address == GetAddress(r, interface, incomingIf)
        check == ListsRouter(neighbors, m_routerId(r)) /\ pkt.area_id = m_areaId(r)
        m_current_neighbors == getCurrentNeighbors(st.tbl)
        add_neighbor == \/ m_current_neighbors = <<>>
                        \/ ~ListsRouter(m_current_neighbors, pkt.router_id)
        first == IF neighbors = <<>> THEN SendDownPacket(r, st, address) ELSE st
    IN  IF check
        THEN IF add_neighbor
             THEN SendTwoWayPacket(r,
                    [first EXCEPT !.tbl = addNeighbors(@, pkt.saddr, pkt.mask, interface,
                                                       pkt.state, pkt.router_id)],
                    address, pkt.saddr)
             ELSE SendTwoWayPacket(r,
                    [first EXCEPT !.tbl = set_State(@, INIT, m_routerId(r))],
                    address, pkt.saddr)
        ELSE SendDownPacket(r, first, address)

HandleInitResponse(r, st, pkt, interface, incomingIf) ==
    LET neighbors == pkt.neighbors
        address == GetAddress(r, interface, incomingIf)
        check == ListsRouter(neighbors, m_routerId(r)) /\ pkt.area_id = m_areaId(r)
        m_current_neighbors == getCurrentNeighbors(st.tbl)
        add_neighbor == \/ m_current_neighbors = <<>>
                        \/ ~ListsRouter(m_current_neighbors, pkt.router_id)
    IN  IF neighbors = <<>>
        THEN SendDownPacket(r, st, address)
        ELSE IF check
        THEN IF add_neighbor
             THEN SendTwoWayPacket(r,
                    [st EXCEPT !.tbl = addNeighbors(@, pkt.saddr, pkt.mask, interface,
                                                    pkt.state, pkt.router_id)],
                    address, pkt.saddr)
             ELSE SendTwoWayPacket(r,
                    [st EXCEPT !.tbl = set_State(@, INIT, m_routerId(r))],
                    address, pkt.saddr)
        ELSE SendDownPacket(r, st, address)

(* variant: the Two-Way state is recorded under the sender's router id *)
HandleTwoWayResponse_PeerKey(r, st, pkt, interface, incomingIf) ==
    LET neighbors == pkt.neighbors
        address == GetAddress(r, interface, incomingIf)
        check == ListsRouter(neighbors, m_routerId(r)) /\ pkt.area_id = m_areaId(r)
        m_current_neighbors == getCurrentNeighbors(st.tbl)
        neighbor_exist == /\ m_current_neighbors # <<>>
                          /\ ListsRouter(m_current_neighbors, pkt.router_id)
        state == get_State(st.tbl, pkt.router_id)
    IN  IF neighbors = <<>>
        THEN SendDownPacket(r, st, address)
        ELSE IF check
        THEN IF neighbor_exist
             THEN IF state = TWO_WAY
                  THEN st
                  ELSE SendTwoWayPacket(r,
                         [st EXCEPT !.tbl = set_State(@, TWO_WAY, pkt.router_id)],
                         address, pkt.saddr)
             ELSE SendDownPacket(r, st, address)
        ELSE SendDownPacket(r, st, address)

(* variant: a packet that fails the proof is dropped without a reply *)
HandleTwoWayResponse_Silent(r, st, pkt, interface, incomingIf) ==
    LET neighbors == pkt.neighbors
        address == GetAddress(r, interface, incomingIf)
        check == ListsRouter(neighbors, m_routerId(r)) /\ pkt.area_id = m_areaId(r)
        m_current_neighbors == getCurrentNeighbors(st.tbl)
        neighbor_exist == /\ m_current_neighbors # <<>>
                          /\ ListsRouter(m_current_neighbors, pkt.router_id)
        state == get_State(st.tbl, m_routerId(r))
    IN  IF neighbors = <<>>
        THEN st
        ELSE IF check
        THEN IF neighbor_exist
             THEN IF state = TWO_WAY
                  THEN st
                  ELSE SendTwoWayPacket(r,
                         [st EXCEPT !.tbl = set_State(@, TWO_WAY, m_routerId(r))],
                         address, pkt.saddr)
             ELSE SendDownPacket(r, st, address)
        ELSE st

(* variant: an unknown sender that passes the proof is recorded and answered *)
HandleTwoWayResponse_AddsUnknown(r, st, pkt, interface, incomingIf) ==
    LET neighbors == pkt.neighbors
        address == GetAddress(r, interface, incomingIf)
        check == ListsRouter(neighbors, m_routerId(r)) /\ pkt.area_id = m_areaId(r)
        m_current_neighbors == getCurrentNeighbors(st.tbl)
        neighbor_exist == /\ m_current_neighbors # <<>>
                          /\ ListsRouter(m_current_neighbors, pkt.router_id)
        state == get_State(st.tbl, m_routerId(r))
    IN  IF neighbors = <<>>
        THEN SendDownPacket(r, st, address)
        ELSE IF check
        THEN IF neighbor_exist
             THEN IF state = TWO_WAY
                  THEN st
                  ELSE SendTwoWayPacket(r,
                         [st EXCEPT !.tbl = set_State(@, TWO_WAY, m_routerId(r))],
                         address, pkt.saddr)
             ELSE SendTwoWayPacket(r,
                    [st EXCEPT !.tbl = addNeighbors(@, pkt.saddr, pkt.mask, interface,
                                                    pkt.state, pkt.router_id)],
                    address, pkt.saddr)
        ELSE SendDownPacket(r, st, address)

(* variant: the Two-Way reply is sent without recording the own state *)
HandleTwoWayResponse_NoSet(r, st, pkt, interface, incomingIf) ==
    LET neighbors == pkt.neighbors
        address == GetAddress(r, interface, incomingIf)
        check == ListsRouter(neighbors, m_routerId(r)) /\ pkt.area_id = m_areaId(r)
        m_current_neighbors == getCurrentNeighbors(st.tbl)
        neighbor_exist == /\ m_current_neighbors # <<>>
                          /\ ListsRouter(m_current_neighbors, pkt.router_id)
        state == get_State(st.tbl, m_routerId(r))
    IN  IF neighbors = <<>>
        THEN SendDownPacket(r, st, address)
        ELSE IF check
        THEN IF neighbor_exist
             THEN IF state = TWO_WAY
                  THEN st
                  ELSE SendTwoWayPacket(r, st, address, pkt.saddr)
             ELSE SendDownPacket(r, st, address)
        ELSE SendDownPacket(r, st, address)

(* variant: a Two-Way packet is answered also when the own state is Two-Way *)
HandleTwoWayResponse_AlwaysReplies(r, st, pkt, interface, incomingIf) ==
    LET neighbors == pkt.neighbors
        address == GetAddress(r, interface, incomingIf)
        check == ListsRouter(neighbors, m_routerId(r)) /\ pkt.area_id = m_areaId(r)
        m_current_neighbors == getCurrentNeighbors(st.tbl)
        neighbor_exist == /\ m_current_neighbors # <<>>
                          /\ ListsRouter(m_current_neighbors, pkt.router_id)
        state == get_State(st.tbl, m_routerId(r))
    IN  IF neighbors = <<>>
        THEN SendDownPacket(r, st, address)
        ELSE IF check
        THEN IF neighbor_exist
             THEN IF state = TWO_WAY
                  THEN SendTwoWayPacket(r, st, address, pkt.saddr)
                  ELSE SendTwoWayPacket(r,
                         [st EXCEPT !.tbl = set_State(@, TWO_WAY, m_routerId(r))],
                         address, pkt.saddr)
             ELSE SendDownPacket(r, st, address)
        ELSE SendDownPacket(r, st, address)

(* variant: where discovery is restarted with a Down packet the record of  *)
(* the sender is taken out of the table first                              *)
HandleTwoWayResponse_DropsOnRestart(r, st, pkt, interface, incomingIf) ==
    LET neighbors == pkt.neighbors
        address == GetAddress(r, interface, incomingIf)
        check == ListsRouter(neighbors, m_routerId(r)) /\ pkt.area_id = m_areaId(r)
        m_current_neighbors == getCurrentNeighbors(st.tbl)
        neighbor_exist == /\ m_current_neighbors # <<>>
                          /\ ListsRouter(m_current_neighbors, pkt.router_id)
        state == get_State(st.tbl, m_routerId(r))
        Other(item) == item.router_id # pkt.router_id
        dropped == [st EXCEPT !.tbl.rows = SelectSeq(@, Other)]
    IN  IF neighbors = <<>>
        THEN SendDownPacket(r, dropped, address)
        ELSE IF check
        THEN IF neighbor_exist
             THEN IF state = TWO_WAY
                  THEN st
                  ELSE SendTwoWayPacket(r,
                         [st EXCEPT !.tbl = set_State(@, TWO_WAY, m_routerId(r))],
                         address, pkt.saddr)
             ELSE SendDownPacket(r, st, address)
        ELSE SendDownPacket(r, dropped, address)

HandleTwoWayResponse(r, st, pkt, interface, incomingIf) ==
    LET neighbors == pkt.neighbors
        address == GetAddress(r, interface, incomingIf)
        check == ListsRouter(neighbors, m_routerId(r)) /\ pkt.area_id = m_areaId(r)
        m_current_neighbors == getCurrentNeighbors(st.tbl)
        neighbor_exist == /\ m_current_neighbors # <<>>
                          /\ ListsRouter(m_current_neighbors, pkt.router_id)
        state == get_State(st.tbl, m_routerId(r))
    IN  IF neighbors = <<>>
        THEN SendDownPacket(r, st, address)
        ELSE IF check
        THEN IF neighbor_exist
             THEN IF state = TWO_WAY
                  THEN st
                  ELSE SendTwoWayPacket(r,
                         [st EXCEPT !.tbl = set_State(@, TWO_WAY, m_routerId(r))],
                         address, pkt.saddr)
             ELSE SendDownPacket(r, st, address)
        ELSE SendDownPacket(r, st, address)

(* variant: for a recorded sender the dispatch is on the state the table   *)
(* records for it, for any other sender on the state of the header         *)
ReceiveIpv4_ByRecordedState(r, st, pkt, interface, tagged, incomingIf) ==
    LET state == IF HasNeighbor(st.tbl, pkt.router_id)
                 THEN get_State(st.tbl, pkt.router_id) ELSE pkt.state
    IN  IF ~tagged
        THEN [st EXCEPT !.abort = TRUE]
        ELSE IF state = DOWN
        THEN HandleDownResponse(r, st, pkt, interface, incomingIf)
        ELSE IF state = INIT
        THEN HandleInitResponse(r, st, pkt, interface, incomingIf)
        ELSE IF state = TWO_WAY
        THEN HandleTwoWayResponse(r, st, pkt, interface, incomingIf)
        ELSE st

(* variant: without a tag the handlers run with interface index 0 *)
ReceiveIpv4_GuessInterface(r, st, pkt, interface, tagged, incomingIf) ==
    LET recvIf == IF tagged THEN incomingIf ELSE 0
        s1 == IF pkt.state = DOWN
              THEN HandleDownResponse(r, st, pkt, interface, recvIf) ELSE st
        s2 == IF pkt.state = INIT
              THEN HandleInitResponse(r, s1, pkt, interface, recvIf) ELSE s1
    IN  IF pkt.state = TWO_WAY
        THEN HandleTwoWayResponse(r, s2, pkt, interface, recvIf) ELSE s2

(* Receive: a packet without the incoming-interface tag aborts; then the   *)
(* three tests of the header's state, one after the other.                 *)
ReceiveIpv4(r, st, pkt, interface, tagged, incomingIf) ==
    IF ~tagged
    THEN [st EXCEPT !.abort = TRUE]
    ELSE LET s1 == IF pkt.state = DOWN
                   THEN HandleDownResponse(r, st, pkt, interface, incomingIf) ELSE st
             s2 == IF pkt.state = INIT
                   THEN HandleInitResponse(r, s1, pkt, interface, incomingIf) ELSE s1
         IN  IF pkt.state = TWO_WAY
             THEN HandleTwoWayResponse(r, s2, pkt, interface, incomingIf) ELSE s2

(* ---------------- startDownState --------------------------------------- *)
(* variant: announcing from an address records the router itself as Down *)
AnnounceAddress_RecordsSelf(r, st, neighbor_table, i, j, activeInterface) ==
    LET address == GetAddress(r, i, j)
    IN  IF address.scope # HOST /\ activeInterface
        THEN IF neighbor_table # <<>>
                /\ \E n \in 1..Len(neighbor_table) :
                      ~InterfaceHasAddress(r, neighbor_table[n].ipInterface, i)
             THEN [st EXCEPT !.abort = TRUE]
             ELSE IF \E n \in 1..Len(neighbor_table) :
                        address = GetAddress(r, neighbor_table[n].ipInterface, i)
                  THEN st
                  ELSE SendDownPacket(r,
                         [st EXCEPT !.tbl = set_State(@, DOWN, m_routerId(r))], address)
        ELSE st

(* the body of the loop over the addresses of interface i, for address j *)
AnnounceAddress(r, st, neighbor_table, i, j, activeInterface) ==
    LET address == GetAddress(r, i, j)
    IN  IF address.scope # HOST /\ activeInterface
        THEN IF neighbor_table # <<>>
                /\ \E n \in 1..Len(neighbor_table) :
                      ~InterfaceHasAddress(r, neighbor_table[n].ipInterface, i)
             THEN [st EXCEPT !.abort = TRUE]
             ELSE IF \E n \in 1..Len(neighbor_table) :
                        address = GetAddress(r, neighbor_table[n].ipInterface, i)
                  THEN st
                  ELSE SendDownPacket(r, st, address)
        ELSE st

RECURSIVE AnnounceAddresses(_, _, _, _, _, _)
AnnounceAddresses(r, st, neighbor_table, i, j, activeInterface) ==
    IF st.abort \/ j >= GetNAddresses(r, i)
    THEN st
    ELSE AnnounceAddresses(r,
            AnnounceAddress(r, st, neighbor_table, i, j, activeInterface),
            neighbor_table, i, j + 1, activeInterface)

RECURSIVE AnnounceInterfaces(_, _, _, _)
AnnounceInterfaces(r, st, neighbor_table, i) ==
    IF st.abort \/ i >= GetNInterfaces(r)
    THEN st
    ELSE IF m_ipv4(r)[i + 1].loopback
    THEN AnnounceInterfaces(r, st, neighbor_table, i + 1)
    ELSE LET activeInterface == i \notin m_interfaceExclusions(r)
             s1 == IF activeInterface THEN [st EXCEPT !.fwd = @ \cup {i}] ELSE st
         IN  AnnounceInterfaces(r,
                AnnounceAddresses(r, s1, neighbor_table, i, 0, activeInterface),
                neighbor_table, i + 1)

startDownState(r, st) ==
    AnnounceInterfaces(r, st, getCurrentNeighbors(st.tbl), 0)

(* ---------------- state ------------------------------------------------ *)
VARIABLES
    m_neighbor_table,   \* router -> its OspfNeighborTable
    forwarding,         \* router -> interfaces with SetForwarding(i, true)
    aborted,            \* router -> the process hit a fatal error
    started,            \* router -> startDownState has run
    net,                \* bag of packets in flight between A and B
    out,                \* packets handed to m_downTarget by the last operation
    pre,                \* neighbour table of the acting router before it
    last                \* the last operation and its input

vars == <<m_neighbor_table, forwarding, aborted, started, net, out, pre, last>>

NoPacket == [state |-> -1]
(* the event loop is idle; after names the operation that returned last *)
Idle(after, r) == [r |-> r, pkt |-> NoPacket, interface |-> 0, incomingIf |-> 0,
                   tagged |-> FALSE, after |-> after, op |-> "idle",
                   again |-> FALSE]

Init ==
    /\ m_neighbor_table = [r \in Routers |-> EmptyTable]
    /\ forwarding = [r \in Routers |-> {}]
    /\ aborted = [r \in Routers |-> FALSE]
    /\ started = [r \in Routers |-> FALSE]
    /\ net = EmptyBag
    /\ out = <<>>
    /\ pre = EmptyTable
    /\ last = Idle("none", "none")

St(r) == [tbl |-> m_neighbor_table[r], out |-> <<>>, abort |-> FALSE,
          fwd |-> forwarding[r]]

(* the effect of one operation of router r that ends in state s *)
Commit(r, s) ==
    /\ m_neighbor_table' = [m_neighbor_table EXCEPT ![r] = s.tbl]
    /\ forwarding' = [forwarding EXCEPT ![r] = s.fwd]
    /\ aborted' = [aborted EXCEPT ![r] = s.abort]
    /\ out' = s.out
    /\ pre' = m_neighbor_table[r]

(* ---------------- the environment of router C -------------------------- *)
Tested == {"C"}
(* router 1 sits on the link of interface 1 and is seen from two            *)
(* addresses; router 2 sits on the link of interface 2                     *)
PeerIds == {1, 2}
Sources(router_id) == IF router_id = 1 THEN {"10.0.2.7", "10.0.2.8"} ELSE {"10.0.3.9"}
Link(router_id) == IF router_id = 1 THEN 1 ELSE 2
Areas == {0, 1}
Masks == {24, 16}
HeaderStates == DOWN..FULL
Handled == {DOWN, INIT, TWO_WAY}

(* a row of a forged snapshot: only its router_id is ever read *)
SnapIds == {3, 1}
SnapRow(id) == NeighborItem("10.0.2.1", 24, 1, DOWN, id)
Snapshots ==
    {[n \in 1..Len(ids) |-> SnapRow(ids[n])] :
        ids \in {q \in UNION {[1..k -> SnapIds] : k \in 0..MaxSnap} :
                    \A a, b \in 1..Len(q) : a # b => q[a] # q[b]}}

Forged(saddr, state, mask, neighbors, router_id, area_id) ==
    Transport(saddr, "10.0.2.1", mask,
              [router_id |-> router_id, neighbors |-> neighbors, area_id |-> area_id],
              HELLO, state, NoRoute)

ForgedPackets ==
    UNION {{Forged(saddr, state, mask, neighbors, router_id, area_id) :
              saddr \in Sources(router_id), state \in Handled, mask \in Masks,
              neighbors \in Snapshots, area_id \in Areas} : router_id \in PeerIds}
    \cup
    {Forged("10.0.2.7", state, 24, <<SnapRow(3)>>, 1, 0) :
        state \in HeaderStates \ Handled}

(* the address indices the tag of a packet arriving on an interface may    *)
(* name: the indices of that interface's addresses                         *)
TagIndices(r, interface) ==
    {j \in {0, 2} : j < GetNAddresses(r, interface)}

(* ---------------- actions ---------------------------------------------- *)
(* One packet or one activation is handled at a time: an operation starts  *)
(* from the idle event loop and returns to it.                             *)
Running(op, r, pkt, interface, tagged, incomingIf) ==
    [r |-> r, pkt |-> pkt, interface |-> interface, incomingIf |-> incomingIf,
     tagged |-> tagged, after |-> "none", op |-> op,
     again |-> (op = "startDownState" /\ last.after = op /\ last.r = r)]

(* Receive of a tagged packet forged by the environment *)
Receive(r, pkt, interface, incomingIf) ==
    /\ last.op = "idle"
    /\ ~aborted[r]
    /\ Commit(r, ReceiveIpv4(r, St(r), pkt, interface, TRUE, incomingIf))
    /\ last' = Running("Receive", r, pkt, interface, TRUE, incomingIf)
    /\ UNCHANGED <<started, net>>

(* Receive of a packet that carries no Ipv4PacketInfoTag *)
ReceiveUntagged(r, pkt, interface) ==
    /\ last.op = "idle"
    /\ ~aborted[r]
    /\ Commit(r, ReceiveIpv4(r, St(r), pkt, interface, FALSE, 0))
    /\ last' = Running("Receive", r, pkt, interface, FALSE, 0)
    /\ UNCHANGED <<started, net>>

(* one invocation of startDownState *)
StartDownState(r) ==
    /\ last.op = "idle"
    /\ ~aborted[r]
    /\ Commit(r, startDownState(r, St(r)))
    /\ started' = [started EXCEPT ![r] = TRUE]
    /\ last' = Running("startDownState", r, NoPacket, 0, FALSE, 0)
    /\ UNCHANGED net

(* the operation returns to the event loop (RX_OK) *)
Return ==
    /\ last.op # "idle"
    /\ last' = Idle(last.op, last.r)
    /\ out' = <<>>
    /\ pre' = EmptyTable
    /\ UNCHANGED <<m_neighbor_table, forwarding, aborted, started, net>>

Next ==
    \/ \E r \in Tested, pkt \in ForgedPackets :
          \E incomingIf \in TagIndices(r, Link(pkt.router_id)) :
             Receive(r, pkt, Link(pkt.router_id), incomingIf)
    \/ \E r \in Tested, state \in HeaderStates :
          ReceiveUntagged(r, Forged("10.0.2.7", state, 24, <<SnapRow(3)>>, 1, 0), 1)
    \/ \E r \in Tested : StartDownState(r)
    \/ Return

Spec == Init /\ [][Next]_vars

(* ---------------- routers A and B on one link -------------------------- *)
Linked == {"A", "B"}

(* the transport delivers a packet to the other router when it is sent to  *)
(* the multicast group, and to the owner of the destination address        *)
DeliveredTo(r, pkt) ==
    \/ pkt.daddr = OSPF_ALL_NODE /\ pkt.router_id # m_routerId(r)
    \/ \E j \in 0..(GetNAddresses(r, 1) - 1) : GetAddress(r, 1, j).local = pkt.daddr

RECURSIVE SeqToBag(_)
SeqToBag(s) == IF s = <<>> THEN EmptyBag ELSE SetToBag({Head(s)}) (+) SeqToBag(Tail(s))

(* startDownState of a router that has not announced itself yet; its       *)
(* packets go on the link                                                  *)
Announce(r) ==
    /\ last.op = "idle"
    /\ ~aborted[r]
    /\ ~started[r]
    /\ Commit(r, startDownState(r, St(r)))
    /\ started' = [started EXCEPT ![r] = TRUE]
    /\ last' = Running("startDownState", r, NoPacket, 0, FALSE, 0)
    /\ net' = net (+) SeqToBag(startDownState(r, St(r)).out)

(* Receive of a packet taken from the link, on interface 1, address 0 *)
Deliver(r, pkt) ==
    /\ last.op = "idle"
    /\ ~aborted[r]
    /\ BagIn(pkt, net)
    /\ DeliveredTo(r, pkt)
    /\ Commit(r, ReceiveIpv4(r, St(r), pkt, 1, TRUE, 0))
    /\ last' = Running("Receive", r, pkt, 1, TRUE, 0)
    /\ net' = (net (-) SetToBag({pkt}))
                (+) SeqToBag(ReceiveIpv4(r, St(r), pkt, 1, TRUE, 0).out)
    /\ UNCHANGED started

NetNext ==
    \/ \E r \in Linked : Announce(r)
    \/ \E r \in Linked : \E pkt \in BagToSet(net) : Deliver(r, pkt)
    \/ Return

NetSpec == Init /\ [][NetNext]_vars

(* ---------------- the two Send variants side by side ------------------ *)
Routes == {"route1", "route2"}
SendSources == {"10.0.2.1", "10.0.2.2"}
SendDestinations == {OSPF_ALL_NODE, "10.0.2.7"}
SendBodies ==
    {[router_id |-> 3, neighbors |-> neighbors, area_id |-> area_id] :
        neighbors \in Snapshots, area_id \in Areas}

(* both variants are called with the same arguments; out holds what the    *)
(* route-less one and then the routed one hand to m_downTarget             *)
CallSend(saddr, daddr, ipv4Mask, helloHeader, packetType, currentState, route) ==
    /\ last.op = "idle"
    /\ out' = <<Send(saddr, daddr, ipv4Mask, helloHeader, packetType, currentState),
                SendRoute(saddr, daddr, ipv4Mask, helloHeader, packetType,
                          currentState, route)>>
    /\ pre' = EmptyTable
    /\ last' = Running("Send", "none", [route |-> route], 0, FALSE, 0)
    /\ UNCHANGED <<m_neighbor_table, forwarding, aborted, started, net>>

SendNext ==
    \/ \E saddr \in SendSources, daddr \in SendDestinations, ipv4Mask \in Masks,
          helloHeader \in SendBodies, currentState \in Handled, route \in Routes :
          CallSend(saddr, daddr, ipv4Mask, helloHeader, HELLO, currentState, route)
    \/ Return

SendSpec == Init /\ [][SendNext]_vars

(* ======================= claims ======================================== *)
(* the last operation was Receive of a tagged packet with this header state *)
Handles(state) == last.op = "Receive" /\ last.tagged /\ last.pkt.state = state
Table == m_neighbor_table[last.r]
RecvAddress == GetAddress(last.r, last.interface, last.incomingIf)
AreaMatches == last.pkt.area_id = m_areaId(last.r)
MaskMatches == last.pkt.mask = RecvAddress.mask
(* out is exactly one packet of this state from the receiving address to daddr *)
OneReply(state, daddr) ==
    /\ Len(out) = 1
    /\ out[1].state = state
    /\ out[1].saddr = RecvAddress.local
    /\ out[1].daddr = daddr

(* C1: a Down, Init or Two-Way packet whose area_id differs from the local *)
(* area leaves the neighbour table unchanged and sends no packet.          *)
C1_AreaIsolation ==
    (last.op = "Receive" /\ last.tagged /\ last.pkt.state \in Handled /\ ~AreaMatches)
        => (Table = pre /\ out = <<>>)

(* C2 as claimed: a router with an empty table that handles a Down packet  *)
(* with matching area and mask then holds exactly one record, for the      *)
(* sender's router id at state Down, and has sent exactly one Init packet  *)
(* to the sender's source address from the receiving interface's address.  *)
C2_DownToInit_Original ==
    (Handles(DOWN) /\ pre = EmptyTable /\ AreaMatches /\ MaskMatches)
        => /\ Len(Table.rows) = 1
           /\ Table.states = {}
           /\ Table.rows[1].router_id = last.pkt.router_id
           /\ Table.rows[1].state = DOWN
           /\ OneReply(INIT, last.pkt.saddr)

(* C2 amended: the same table; the one Init packet is sent unless the      *)
(* receiving interface's address is host-scoped, and then none is sent.    *)
C2_DownToInit ==
    (Handles(DOWN) /\ pre = EmptyTable /\ AreaMatches /\ MaskMatches)
        => /\ Len(Table.rows) = 1
           /\ Table.states = {}
           /\ Table.rows[1].router_id = last.pkt.router_id
           /\ Table.rows[1].state = DOWN
           /\ IF RecvAddress.scope = HOST
              THEN out = <<>>
              ELSE OneReply(INIT, last.pkt.saddr)

C2_Witness ==
    /\ Handles(DOWN) /\ pre = EmptyTable /\ AreaMatches /\ MaskMatches
    /\ Len(Table.rows) = 1 /\ Len(out) = 1 /\ out[1].state = INIT

(* C3: a Down packet whose mask differs from the receiving interface's     *)
(* mask changes no table record and sends no packet, also when the area    *)
(* matches.                                                                *)
C3_MaskMismatch ==
    (Handles(DOWN) /\ ~MaskMatches) => (Table = pre /\ out = <<>>)

C3_Witness ==
    /\ Handles(DOWN) /\ ~MaskMatches /\ AreaMatches
    /\ pre # EmptyTable /\ Table = pre /\ out = <<>>

(* C4 as claimed: an Init packet with an empty snapshot sends exactly one  *)
(* Down packet and leaves the table unchanged, whatever the table holds.   *)
C4_InitEmptySnapshot_Original ==
    (Handles(INIT) /\ last.pkt.neighbors = <<>>)
        => (Table = pre /\ OneReply(DOWN, OSPF_ALL_NODE))

(* C4 amended: the table is unchanged; the one Down packet is sent unless  *)
(* the receiving interface's address is host-scoped, and then none is.     *)
C4_InitEmptySnapshot ==
    (Handles(INIT) /\ last.pkt.neighbors = <<>>)
        => /\ Table = pre
           /\ IF RecvAddress.scope = HOST
              THEN out = <<>>
              ELSE OneReply(DOWN, OSPF_ALL_NODE)

C4_Witness ==
    /\ Handles(INIT) /\ last.pkt.neighbors = <<>>
    /\ pre # EmptyTable /\ Table = pre /\ Len(out) = 1 /\ out[1].state = DOWN

OwnId == m_routerId(last.r)
ProofHolds == ListsRouter(last.pkt.neighbors, OwnId) /\ AreaMatches

Peer(r) == IF r = "A" THEN "B" ELSE "A"
(* the terminal state: the peer is recorded and the own state reads Two-Way *)
Terminal(r) ==
    /\ HasNeighbor(m_neighbor_table[r], m_routerId(Peer(r)))
    /\ get_State(m_neighbor_table[r], m_routerId(r)) = TWO_WAY
(* both routers announced, neither died, every packet sent was delivered   *)
(* and handled: nothing further can happen                                 *)
Quiesced ==
    /\ last.op = "idle"
    /\ net = EmptyBag
    /\ \A r \in Linked : started[r] /\ ~aborted[r]

(* C6: two routers of one area that start empty and announce, with every   *)
(* packet sent eventually delivered, each reach the state where the table  *)
(* holds the peer and the own recorded state reads Two-Way, and from then  *)
(* on send nothing.  Its finite form: once every packet has been delivered *)
(* and the exchange has fallen silent, both routers are in that state.     *)
C6_Convergence == Quiesced => \A r \in Linked : Terminal(r)

(* C7: no table ever holds more than one record for a router id.           *)
C7_Uniqueness ==
    \A r \in Routers :
        \A m, n \in 1..Len(m_neighbor_table[r].rows) :
            m_neighbor_table[r].rows[m].router_id = m_neighbor_table[r].rows[n].router_id
                => m = n

(* a second add for a recorded id, into a table of several records *)
C7_Witness ==
    /\ Handles(DOWN) /\ AreaMatches /\ MaskMatches
    /\ HasNeighbor(pre, last.pkt.router_id)
    /\ Len(Table.rows) >= 2

(* C8: adding a neighbour whose router id is already recorded leaves       *)
(* exactly one record for that id, with the address, mask, interface and   *)
(* state of the first insertion.                                           *)
C8_AddIdempotent ==
    (Handles(DOWN) /\ AreaMatches /\ MaskMatches /\ HasNeighbor(pre, last.pkt.router_id))
        => /\ Cardinality({n \in 1..Len(Table.rows) :
                              Table.rows[n].router_id = last.pkt.router_id}) = 1
           /\ \A n \in 1..Len(pre.rows) :
                  pre.rows[n].router_id = last.pkt.router_id
                      => Table.rows[n] = pre.rows[n]

(* the repeated add carries another address and another state than the first *)
C8_Witness ==
    /\ Handles(DOWN) /\ AreaMatches /\ MaskMatches
    /\ \E n \in 1..Len(pre.rows) :
           /\ pre.rows[n].router_id = last.pkt.router_id
           /\ pre.rows[n].ipAddress # last.pkt.saddr
           /\ pre.rows[n].state # last.pkt.state
           /\ Table.rows[n] = pre.rows[n]

(* C9: an invocation of the self-announcement routine, a repeated one      *)
(* included, sends at most one Down packet per (interface, address) pair   *)
(* and does not change the neighbour table.                                *)
C9_AnnounceIdempotent ==
    (last.op = "startDownState")
        => /\ Table = pre
           /\ \A k \in 1..Len(out) : out[k].state = DOWN
           /\ \A k, l \in 1..Len(out) : out[k].saddr = out[l].saddr => k = l

(* the second of two invocations in succession, sending from two addresses *)
C9_Witness ==
    /\ last.op = "startDownState" /\ last.again
    /\ ~aborted[last.r] /\ Table = pre
    /\ Len(out) >= 2

(* the address belongs to the interface of some row of the table *)
AppearsInTable(r, tbl, address) ==
    \E n \in 1..Len(tbl.rows) :
        \E j \in 0..(GetNAddresses(r, tbl.rows[n].ipInterface) - 1) :
            GetAddress(r, tbl.rows[n].ipInterface, j) = address

(* C10: the self-announcement routine sends a Down packet from an address  *)
(* exactly when its interface is not the loopback and not excluded, the    *)
(* address is not host-scoped and it does not already appear in a row of   *)
(* the neighbour table.                                                    *)
C10_Eligibility ==
    (last.op = "startDownState")
        => \A i \in 0..(GetNInterfaces(last.r) - 1) :
               \A j \in 0..(GetNAddresses(last.r, i) - 1) :
                   (\E k \in 1..Len(out) : out[k].saddr = GetAddress(last.r, i, j).local)
                       <=> /\ ~m_ipv4(last.r)[i + 1].loopback
                           /\ i \notin m_interfaceExclusions(last.r)
                           /\ GetAddress(last.r, i, j).scope # HOST
                           /\ ~AppearsInTable(last.r, pre, GetAddress(last.r, i, j))

(* the address is a host-scoped address of router r *)
HostScoped(r, saddr) ==
    \E i \in 0..(GetNInterfaces(r) - 1) :
        \E j \in 0..(GetNAddresses(r, i) - 1) :
            GetAddress(r, i, j).local = saddr /\ GetAddress(r, i, j).scope = HOST
(* the router as the last operation found it *)
PreSt == [tbl |-> pre, out |-> <<>>, abort |-> FALSE, fwd |-> forwarding[last.r]]

(* C11: no packet handed to the transport has a host-scoped source         *)
(* address; when the address a handler would send from is host-scoped,     *)
(* nothing is sent and the table is changed exactly as it is when the same *)
(* packet arrives on an address of that interface that is not host-scoped. *)
C11_HostScopeSuppression ==
    /\ (last.op \in {"Receive", "startDownState"})
           => \A k \in 1..Len(out) : ~HostScoped(last.r, out[k].saddr)
    /\ (last.op = "Receive" /\ last.tagged /\ RecvAddress.scope = HOST)
           => /\ out = <<>>
              /\ Table = ReceiveIpv4(last.r, PreSt, last.pkt, last.interface, TRUE, 0).tbl

(* a Down packet accepted on a host-scoped address: recorded, not answered *)
C11_Witness ==
    /\ Handles(DOWN) /\ AreaMatches /\ MaskMatches
    /\ RecvAddress.scope = HOST
    /\ Table # pre /\ out = <<>>

(* C12: called with the same body, addresses, mask, packet type and state, *)
(* the route-less Send and the Send with a route hand the transport the    *)
(* same addresses, protocol, header fields and body; they differ only in   *)
(* the route, none for the first and the supplied one for the second.      *)
C12_SendVariants ==
    (last.op = "Send")
        => /\ Len(out) = 2
           /\ out[1].route = NoRoute
           /\ out[2].route = last.pkt.route
           /\ [out[2] EXCEPT !.route = NoRoute] = out[1]

C12_Witness ==
    /\ last.op = "Send"
    /\ out[2].route = "route2" /\ out[1].route = NoRoute
    /\ out[1].neighbors # <<>> /\ out[1].mask = 16 /\ out[2].state = TWO_WAY

(* C13: when the lookup of the router's own id during Two-Way handling     *)
(* finds no recorded state, the handler notices it and does not treat the  *)
(* result as a state other than Two-Way: it records no state and sends no  *)
(* Two-Way packet on the strength of it.                                   *)
C13_NotFoundDetected ==
    (/\ Handles(TWO_WAY) /\ ProofHolds
     /\ HasNeighbor(pre, last.pkt.router_id)
     /\ get_State(pre, OwnId) = NOT_FOUND)
        => /\ Table = pre
           /\ \A k \in 1..Len(out) : out[k].state # TWO_WAY

(* C14: a received packet without the incoming-interface tag aborts the    *)
(* processing before the dispatch on the header's state: no handler runs,  *)
(* the neighbour table is unchanged and no packet is sent, whatever the    *)
(* state field of the header.                                              *)
C14_MissingTagFatal ==
    (last.op = "Receive" /\ ~last.tagged)
        => /\ aborted[last.r]
           /\ Table = pre
           /\ out = <<>>

(* the untagged packet is a Two-Way packet from a recorded peer that lists *)
(* the router: tagged, it would have been recorded and answered            *)
C14_Witness ==
    /\ last.op = "Receive" /\ ~last.tagged
    /\ last.pkt.state = TWO_WAY /\ ProofHolds
    /\ HasNeighbor(pre, last.pkt.router_id)
    /\ get_State(pre, OwnId) # TWO_WAY
    /\ aborted[last.r] /\ Table = pre /\ out = <<>>

(* the rows of the table before, followed by one row for the sender in the *)
(* state the header declares                                               *)
SenderAdded ==
    /\ Len(Table.rows) = Len(pre.rows) + 1
    /\ SubSeq(Table.rows, 1, Len(pre.rows)) = pre.rows
    /\ Table.rows[Len(Table.rows)].router_id = last.pkt.router_id
    /\ Table.rows[Len(Table.rows)].state = last.pkt.state
    /\ Table.states = pre.states

(* C15 as claimed: an Init packet of the router's area whose snapshot      *)
(* lists the router, from a sender the table does not hold, adds one       *)
(* record for the sender in the state of the header (Init) and sends       *)
(* exactly one Two-Way packet to the sender's source address.              *)
C15_InitPeerUnknown_Original ==
    (Handles(INIT) /\ ProofHolds /\ ~HasNeighbor(pre, last.pkt.router_id))
        => /\ SenderAdded
           /\ get_State(Table, last.pkt.router_id) = INIT
           /\ OneReply(TWO_WAY, last.pkt.saddr)

(* C15 amended: the record is added as claimed; the one Two-Way packet is  *)
(* sent unless the receiving interface's address is host-scoped, and then  *)
(* none is sent.                                                           *)
C15_InitPeerUnknown ==
    (Handles(INIT) /\ ProofHolds /\ ~HasNeighbor(pre, last.pkt.router_id))
        => /\ SenderAdded
           /\ get_State(Table, last.pkt.router_id) = INIT
           /\ IF RecvAddress.scope = HOST
              THEN out = <<>>
              ELSE OneReply(TWO_WAY, last.pkt.saddr)

(* the sender joins a table that already holds another neighbour *)
C15_Witness ==
    /\ Handles(INIT) /\ ProofHolds /\ ~HasNeighbor(pre, last.pkt.router_id)
    /\ pre.rows # <<>> /\ SenderAdded
    /\ Len(out) = 1 /\ out[1].state = TWO_WAY

(* the state recorded under the router's own id is Init and nothing else   *)
(* of the table has changed: same neighbours, same records                 *)
OwnStateSetInit ==
    /\ Table = set_State(pre, INIT, OwnId)
    /\ get_State(Table, OwnId) = INIT
    /\ Table.rows = pre.rows

(* C16 as claimed: an Init packet that passes the proof, from a sender the *)
(* table already holds, sets the state keyed by the router's own id (not   *)
(* the sender's) to Init, leaves the neighbours and the sender's record as *)
(* they were, and sends exactly one Two-Way packet to the sender.          *)
C16_InitPeerKnown_Original ==
    (Handles(INIT) /\ ProofHolds /\ HasNeighbor(pre, last.pkt.router_id))
        => (OwnStateSetInit /\ OneReply(TWO_WAY, last.pkt.saddr))

(* C16 amended: the same table effect; the one Two-Way packet is sent      *)
(* unless the receiving interface's address is host-scoped, and then none  *)
(* is sent.                                                                *)
C16_InitPeerKnown ==
    (Handles(INIT) /\ ProofHolds /\ HasNeighbor(pre, last.pkt.router_id))
        => /\ OwnStateSetInit
           /\ IF RecvAddress.scope = HOST
              THEN out = <<>>
              ELSE OneReply(TWO_WAY, last.pkt.saddr)

(* the sender is recorded as Down and the own state was Two-Way before *)
C16_Witness ==
    /\ Handles(INIT) /\ ProofHolds
    /\ get_State(pre, last.pkt.router_id) = DOWN
    /\ get_State(pre, OwnId) = TWO_WAY
    /\ OwnStateSetInit
    /\ Len(out) = 1 /\ out[1].state = TWO_WAY

(* an Init or Two-Way packet that does not prove mutual visibility *)
ProofFails ==
    /\ last.op = "Receive" /\ last.tagged
    /\ last.pkt.state \in {INIT, TWO_WAY}
    /\ \/ last.pkt.neighbors # <<>> /\ ~ListsRouter(last.pkt.neighbors, OwnId)
       \/ ~AreaMatches
       \/ last.pkt.state = TWO_WAY /\ last.pkt.neighbors = <<>>

(* C17 as claimed: an Init or Two-Way packet whose non-empty snapshot does *)
(* not list the router, or whose area differs from the router's (whatever  *)
(* the snapshot), or, for Two-Way, whose snapshot is empty, makes the      *)
(* handler send exactly one Down packet and leave the table unchanged.     *)
C17_FailedProof_Original ==
    ProofFails => (Table = pre /\ OneReply(DOWN, OSPF_ALL_NODE))

(* C17 amended: the table is unchanged; the one Down packet is sent unless *)
(* the receiving interface's address is host-scoped, and then none is.     *)
C17_FailedProof ==
    ProofFails
        => /\ Table = pre
           /\ IF RecvAddress.scope = HOST
              THEN out = <<>>
              ELSE OneReply(DOWN, OSPF_ALL_NODE)

(* a Two-Way packet of another area that lists the router, from a recorded *)
(* sender                                                                  *)
C17_Witness ==
    /\ Handles(TWO_WAY) /\ ~AreaMatches
    /\ ListsRouter(last.pkt.neighbors, OwnId)
    /\ HasNeighbor(pre, last.pkt.router_id)
    /\ Table = pre /\ Len(out) = 1 /\ out[1].state = DOWN

(* C18 as claimed: a Two-Way packet that passes the proof, from a sender   *)
(* with no record in the table (the empty table included), makes the       *)
(* handler send exactly one Down packet, add no record and change no       *)
(* recorded state.                                                         *)
C18_TwoWayUnknownPeer_Original ==
    (Handles(TWO_WAY) /\ ProofHolds /\ ~HasNeighbor(pre, last.pkt.router_id))
        => (Table = pre /\ OneReply(DOWN, OSPF_ALL_NODE))

(* C18 amended: no record added, no state changed; the one Down packet is  *)
(* sent unless the receiving interface's address is host-scoped.           *)
C18_TwoWayUnknownPeer ==
    (Handles(TWO_WAY) /\ ProofHolds /\ ~HasNeighbor(pre, last.pkt.router_id))
        => /\ Table = pre
           /\ IF RecvAddress.scope = HOST
              THEN out = <<>>
              ELSE OneReply(DOWN, OSPF_ALL_NODE)

(* the sender is unknown to a table that holds another neighbour *)
C18_Witness ==
    /\ Handles(TWO_WAY) /\ ProofHolds /\ ~HasNeighbor(pre, last.pkt.router_id)
    /\ pre.rows # <<>>
    /\ Table = pre /\ Len(out) = 1 /\ out[1].state = DOWN

(* the same packet handled once more, right after the last operation *)
HandledAgain ==
    ReceiveIpv4(last.r, [PreSt EXCEPT !.tbl = Table], last.pkt, last.interface,
                TRUE, last.incomingIf)

(* C19 as claimed: a Two-Way packet that passes the proof, from a recorded *)
(* sender, while the state under the router's own id is not Two-Way, sets  *)
(* that state to Two-Way and sends exactly one Two-Way packet to the       *)
(* sender; the same packet handled again right afterwards finds the state  *)
(* Two-Way and sends nothing.                                              *)
C19_TwoWayKnownPeer_Original ==
    (/\ Handles(TWO_WAY) /\ ProofHolds
     /\ HasNeighbor(pre, last.pkt.router_id)
     /\ get_State(pre, OwnId) # TWO_WAY)
        => /\ Table = set_State(pre, TWO_WAY, OwnId)
           /\ get_State(Table, OwnId) = TWO_WAY
           /\ OneReply(TWO_WAY, last.pkt.saddr)
           /\ HandledAgain.out = <<>>
           /\ HandledAgain.tbl = Table

(* C19 amended: the same, except that the one Two-Way packet is not sent   *)
(* when the receiving interface's address is host-scoped.                  *)
C19_TwoWayKnownPeer ==
    (/\ Handles(TWO_WAY) /\ ProofHolds
     /\ HasNeighbor(pre, last.pkt.router_id)
     /\ get_State(pre, OwnId) # TWO_WAY)
        => /\ Table = set_State(pre, TWO_WAY, OwnId)
           /\ get_State(Table, OwnId) = TWO_WAY
           /\ IF RecvAddress.scope = HOST
              THEN out = <<>>
              ELSE OneReply(TWO_WAY, last.pkt.saddr)
           /\ HandledAgain.out = <<>>
           /\ HandledAgain.tbl = Table

(* the own state was Init (set by an Init packet of the recorded sender) *)
C19_Witness ==
    /\ Handles(TWO_WAY) /\ ProofHolds
    /\ HasNeighbor(pre, last.pkt.router_id)
    /\ get_State(pre, OwnId) = INIT
    /\ get_State(Table, OwnId) = TWO_WAY
    /\ Len(out) = 1 /\ out[1].state = TWO_WAY

(* C20: a Two-Way packet that passes the proof, from a recorded sender,    *)
(* while the state under the router's own id already reads Two-Way, sends  *)
(* no packet and leaves the whole table unchanged.                         *)
C20_TerminalSilent ==
    (/\ Handles(TWO_WAY) /\ ProofHolds
     /\ HasNeighbor(pre, last.pkt.router_id)
     /\ get_State(pre, OwnId) = TWO_WAY)
        => (out = <<>> /\ Table = pre)

(* handled on an address a reply could have left from *)
C20_Witness ==
    /\ Handles(TWO_WAY) /\ ProofHolds
    /\ HasNeighbor(pre, last.pkt.router_id)
    /\ get_State(pre, OwnId) = TWO_WAY
    /\ RecvAddress.scope # HOST
    /\ out = <<>> /\ Table = pre

(* what the handler named by the header's state does to the router as the  *)
(* last operation found it; no handler for the other five states           *)
HandlerOfHeaderState ==
    CASE last.pkt.state = DOWN ->
            HandleDownResponse(last.r, PreSt, last.pkt, last.interface, last.incomingIf)
      [] last.pkt.state = INIT ->
            HandleInitResponse(last.r, PreSt, last.pkt, last.interface, last.incomingIf)
      [] last.pkt.state = TWO_WAY ->
            HandleTwoWayResponse(last.r, PreSt, last.pkt, last.interface, last.incomingIf)
      [] OTHER -> PreSt

(* C21: the handler that runs for a received packet is the one named by    *)
(* the state field of its header, whatever state the table records for    *)
(* the sender; a packet whose header state is Attempt, ExStart, Exchange,  *)
(* Loading or Full runs no handler, changes no record and sends nothing.   *)
C21_DispatchByHeaderState ==
    (last.op = "Receive" /\ last.tagged)
        => /\ Table = HandlerOfHeaderState.tbl
           /\ out = HandlerOfHeaderState.out
           /\ (last.pkt.state \notin Handled) => (Table = pre /\ out = <<>>)

(* a Down packet from a sender recorded in state Init is answered as a     *)
(* Down packet, with an Init packet                                        *)
C21_Witness ==
    /\ Handles(DOWN) /\ AreaMatches /\ MaskMatches
    /\ get_State(pre, last.pkt.router_id) = INIT
    /\ Len(out) = 1 /\ out[1].state = INIT

(* the header state a packet of `out` may carry, by the operation that     *)
(* sent it: the announcement sends Down packets, the Down handler answers  *)
(* with SendInitPacket, the other two with SendTwoWayPacket or             *)
(* SendDownPacket                                                          *)
StatesOfOperation ==
    IF last.op = "startDownState" THEN {DOWN}
    ELSE IF last.pkt.state = DOWN THEN {INIT}
    ELSE {TWO_WAY, DOWN}

(* C22: every Down, Init or Two-Way packet a router sends carries the      *)
(* router's own router id, its own area id and the neighbour table as it   *)
(* is when the packet is sent, with packet type Hello and the state of the *)
(* send operation used (the Down packet being the one that is multicast).  *)
C22_PacketContents ==
    (last.op \in {"Receive", "startDownState"})
        => \A k \in 1..Len(out) :
              /\ out[k].router_id = OwnId
              /\ out[k].area_id = m_areaId(last.r)
              /\ out[k].neighbors = getCurrentNeighbors(Table)
              /\ out[k].packetType = HELLO
              /\ out[k].state \in StatesOfOperation
              /\ (out[k].state = DOWN) <=> (out[k].daddr = OSPF_ALL_NODE)

(* a Two-Way reply whose snapshot already holds the sender added by the    *)
(* same handler                                                            *)
C22_Witness ==
    /\ Handles(INIT) /\ Len(out) = 1 /\ out[1].state = TWO_WAY
    /\ out[1].neighbors # <<>> /\ out[1].neighbors # getCurrentNeighbors(pre)
    /\ out[1].router_id = OwnId

(* the router ids that have a record in a table *)
RecordedIds(tbl) == {tbl.rows[n].router_id : n \in 1..Len(tbl.rows)}

(* C23: a router_id that has a record in the neighbour table before a      *)
(* received packet is handled or the self-announcement runs has a record   *)
(* after it, so membership only grows along any sequence of operations;    *)
(* the handlers that answer with a Down packet remove nothing either.      *)
C23_MembershipOnlyGrows ==
    (last.op \in {"Receive", "startDownState"})
        => RecordedIds(pre) \subseteq RecordedIds(Table)

(* a packet from a recorded sender is answered with a Down packet that     *)
(* restarts discovery, and the sender is still recorded                    *)
C23_Witness ==
    /\ last.op = "Receive" /\ last.tagged /\ last.pkt.state \in {INIT, TWO_WAY}
    /\ last.pkt.router_id \in RecordedIds(pre)
    /\ Len(out) = 1 /\ out[1].state = DOWN
    /\ last.pkt.router_id \in RecordedIds(Table)

(* C24: the sender is recorded before the reply is composed: the Init      *)
(* packet sent in answer to a Down packet of the right area and mask, and  *)
(* the Two-Way packet sent in answer to an Init packet, with a valid       *)
(* proof, from a peer that was not recorded, each carry a snapshot with an *)
(* entry for the router_id of the packet's sender.                         *)
C24_ReplyListsSender ==
    /\ (Handles(DOWN) /\ AreaMatches /\ MaskMatches)
          => \A k \in 1..Len(out) :
                /\ out[k].state = INIT
                /\ ListsRouter(out[k].neighbors, last.pkt.router_id)
    /\ (Handles(INIT) /\ ProofHolds /\ last.pkt.router_id \notin RecordedIds(pre))
          => \A k \in 1..Len(out) :
                /\ out[k].state = TWO_WAY
                /\ ListsRouter(out[k].neighbors, last.pkt.router_id)

(* the first Down packet a router with an empty table receives is answered *)
(* with an Init packet that lists its sender                               *)
C24_Witness ==
    /\ Handles(DOWN) /\ AreaMatches /\ MaskMatches
    /\ pre = EmptyTable
    /\ Len(out) = 1 /\ out[1].state = INIT
    /\ ListsRouter(out[1].neighbors, last.pkt.router_id)

(* C25: handling one received packet, whatever its header state, area,     *)
(* mask and snapshot, whatever the table holds and whether or not it       *)
(* carries a tag, hands the transport at most one packet.                  *)
C25_AtMostOneReply ==
    (last.op = "Receive") => Len(out) <= 1

(* a packet with an empty snapshot, received while the table has records,  *)
(* is answered with one packet                                             *)
C25_Witness ==
    /\ last.op = "Receive" /\ last.tagged
    /\ last.pkt.neighbors = <<>> /\ last.pkt.state \in {INIT, TWO_WAY}
    /\ pre # EmptyTable
    /\ Len(out) = 1

(* the router ids other than the router's own that have a record *)
PeersRecorded(r, tbl) == RecordedIds(tbl) \ {m_routerId(r)}

(* C26: set_State is only called with the router's own id, so the state in *)
(* the record of a peer (a router_id other than the local one) is the      *)
(* header state of the packet that inserted the record, Down or Init, and  *)
(* no later operation changes it; it never becomes Two-Way.                *)
C26_PeerRecordNeverAdvances ==
    /\ \A r \in Routers : \A id \in PeersRecorded(r, m_neighbor_table[r]) :
          get_State(m_neighbor_table[r], id) \in {DOWN, INIT}
    /\ (last.op \in {"Receive", "startDownState"})
          => /\ \A id \in PeersRecorded(last.r, pre) :
                   get_State(Table, id) = get_State(pre, id)
             /\ \A id \in PeersRecorded(last.r, Table) \ PeersRecorded(last.r, pre) :
                   /\ id = last.pkt.router_id
                   /\ get_State(Table, id) = last.pkt.state

(* the router sets its own state to Two-Way on a Two-Way packet from a     *)
(* peer whose record was inserted by a Down packet and still says Down     *)
C26_Witness ==
    /\ Handles(TWO_WAY)
    /\ last.pkt.router_id \in PeersRecorded(last.r, pre)
    /\ get_State(pre, last.pkt.router_id) = DOWN
    /\ get_State(pre, OwnId) # TWO_WAY
    /\ get_State(Table, OwnId) = TWO_WAY
    /\ get_State(Table, last.pkt.router_id) = DOWN

====
